---- MODULE Spec2Model ----
(***************************************************************************)
(* A model of src/majsoul_analyzer.py: MajsoulAnalyzer.analyze_all_records *)
(* (the paging loop, the sort of the buffer and the per-record loop),      *)
(* parse_game_record, get_user_rank and update_streaks.                    *)
(*                                                                         *)
(* A raw record is [id, startTime, players, missing], startTime in seconds *)
(* and players a sequence of [accountId, score].  The values of the fields *)
(* the code only copies (nickname, level, gradingScore, uuid, endTime,     *)
(* modeId) are left out: no branch and no counter of the code reads them.  *)
(* missing is the set of keys the record's JSON object lacks: reading one  *)
(* of them raises KeyError.                                                *)
(***************************************************************************)
EXTENDS Integers, Sequences, FiniteSets, TLC

\* Bounds of the exploration.
MaxRecords == 3     \* records held by the remote service
MaxTime == 3        \* start times are 1..MaxTime (seconds)
PageLimit == 2      \* stands for limit=100 of the request (line 202)
MaxFetch == 4       \* pages a contract-breaking remote is followed for
MaxPlayers == 4     \* participants of a record, where their number varies
MaxScore == 2       \* scores are 1..MaxScore, where they vary

\* Program constants.
MsPerSec == 1000    \* records[-1]['startTime'] * 1000 - 1
UserId == 1         \* self.user_id

VARIABLES
    server,          \* the remote service's records, newest first
    pc,              \* "fetch" (while True), "process" (for record_data),
                     \* "done" (analyze_all_records has returned), "printed"
                     \* (print_statistics has returned), "crashed" (an
                     \* exception has left the method)
    start_time,      \* the cursor, in milliseconds
    page_count,
    records,         \* the page the last fetch returned
    all_records,
    arrival,         \* history: all_records as it was just before the sort
    idx,             \* position of the for loop in all_records
    total_stats,
    current_streaks,
    fetch_failed,    \* history: the except branch of fetch_player_records ran
    first_run        \* history: <<total_stats, current_streaks>> as the first
                     \* call of analyze_all_records left them; <<>> during it

vars == <<server, pc, start_time, page_count, records, all_records, arrival,
          idx, total_stats, current_streaks, fetch_failed, first_run>>

----------------------------------------------------------------------------
\* Helpers on sequences.

Last(s) == s[Len(s)]

Take(s, n) == SubSeq(s, 1, IF Len(s) < n THEN Len(s) ELSE n)

Max2(a, b) == IF a > b THEN a ELSE b

----------------------------------------------------------------------------
\* The raw records the remote can hold.

\* One participant list: the subject sits at position userPos (0: absent).
Players(scores, userPos) ==
    [i \in 1..Len(scores) |->
        [accountId |-> IF i = userPos THEN UserId ELSE UserId + i,
         score |-> scores[i]]]

\* Four participants, scores out of order and with one tie.
FourScores == <<20, 40, 20, 10>>

\* Five participants: the subject, last, is ranked 5.
FiveScores == <<50, 40, 30, 20, 10>>

\* What the four-player endpoint (pl4) returns: four participants, the
\* subject at any place among them or absent.
PlayerLists == {Players(FourScores, p) : p \in 0..4}

\* The same and a record of five participants.
WidePlayerLists == PlayerLists \cup {Players(FiveScores, 5)}

Times == 1..MaxTime

\* The remote orders its records descending by time.
Descending(ts) ==
    \A i \in DOMAIN ts : \A j \in DOMAIN ts : i <= j => ts[i] >= ts[j]

\* The remote's records with these start times and participants, newest
\* first; _id is unique.
Server(ts, ps) ==
    [i \in DOMAIN ts |->
        [id |-> i, startTime |-> ts[i], players |-> ps[i], missing |-> {}]]

\* int(time.time() * 1000): every record of the remote is older than now.
Now == (MaxTime + 1) * MsPerSec

----------------------------------------------------------------------------
\* fetch_player_records: the response to the request
\* {base_url}/{user_id}/{start_time}/0?limit=..&descending=true.

\* The remote's answer when it keeps its contract: the records strictly older
\* than the cursor, newest first, at most limit of them.
ServerPage(cursor) ==
    Take(SelectSeq(server, LAMBDA r : r.startTime * MsPerSec < cursor),
         PageLimit)

\* A remote that ignores the cursor: its newest page, whatever is asked.
StubbornPage == Take(server, PageLimit)

----------------------------------------------------------------------------
\* parse_game_record and get_user_rank.

\* A plausible slip: reverse=True forgotten.
PlaceByScoreAscending(ps, i) ==
    1 + Cardinality({j \in 1..Len(ps) :
                        \/ ps[j].score < ps[i].score
                        \/ ps[j].score = ps[i].score /\ j < i})

\* players.sort(key=lambda x: x.score, reverse=True) is stable: ps[i] comes
\* after every participant of higher score and after every earlier one of
\* equal score.
PlaceByScoreDesc(ps, i) ==
    1 + Cardinality({j \in 1..Len(ps) :
                        \/ ps[j].score > ps[i].score
                        \/ ps[j].score = ps[i].score /\ j < i})

SortPlayers(ps) ==
    [k \in 1..Len(ps) |->
        ps[CHOOSE i \in 1..Len(ps) : PlaceByScoreDesc(ps, i) = k]]

parse_game_record(record) ==
    LET sorted == SortPlayers(
            [i \in 1..Len(record.players) |->
                [account_id |-> record.players[i].accountId,
                 score |-> record.players[i].score]])
    IN [start_time |-> record.startTime,
        players |-> [i \in 1..Len(sorted) |->
                        [account_id |-> sorted[i].account_id,
                         score |-> sorted[i].score,
                         rank |-> i]]]

\* A plausible slip: -1, not 0, for a subject that is not found.
get_user_rank_not_found_negative(game_record) ==
    LET hits == {i \in 1..Len(game_record.players) :
                    game_record.players[i].account_id = UserId}
    IN IF hits = {} THEN 0 - 1
       ELSE game_record.players[
                CHOOSE i \in hits : \A j \in hits : i <= j].rank

\* for player in game_record.players: the first match's rank; return 0.
get_user_rank(game_record) ==
    LET hits == {i \in 1..Len(game_record.players) :
                    game_record.players[i].account_id = UserId}
    IN IF hits = {} THEN 0
       ELSE game_record.players[
                CHOOSE i \in hits : \A j \in hits : i <= j].rank

\* The keys parse_game_record reads of a raw record and of its participants.
ParseKeys ==
    {"players", "accountId", "nickname", "level", "score", "gradingScore",
     "_id", "modeId", "uuid", "startTime", "endTime"}

\* parse_game_record raises KeyError: the record lacks a key it reads.
ParseRaises(record) == record.missing \cap ParseKeys # {}

----------------------------------------------------------------------------
\* update_streaks.

Keys == {"first", "top2", "third", "last", "not_first", "not_last"}

\* f'max_consecutive_{key.replace("_", "_")}'
MaxKey(key) ==
    CASE key = "first" -> "max_consecutive_first"
      [] key = "top2" -> "max_consecutive_top2"
      [] key = "third" -> "max_consecutive_third"
      [] key = "last" -> "max_consecutive_last"
      [] key = "not_first" -> "max_consecutive_not_first"
      [] key = "not_last" -> "max_consecutive_not_last"

\* A plausible slip: a first place does not end a run of third places.
StreakTransitionKeepsThird(cs, rank) ==
    IF rank = 1 THEN
        [cs EXCEPT !.first = @ + 1, !.top2 = @ + 1, !.last = 0,
                   !.not_first = 0, !.not_last = @ + 1]
    ELSE IF rank = 2 THEN
        [cs EXCEPT !.first = 0, !.top2 = @ + 1, !.third = 0, !.last = 0,
                   !.not_first = @ + 1, !.not_last = @ + 1]
    ELSE IF rank = 3 THEN
        [cs EXCEPT !.first = 0, !.top2 = 0, !.third = @ + 1, !.last = 0,
                   !.not_first = @ + 1, !.not_last = @ + 1]
    ELSE IF rank = 4 THEN
        [cs EXCEPT !.first = 0, !.top2 = 0, !.third = 0, !.last = @ + 1,
                   !.not_first = @ + 1, !.not_last = 0]
    ELSE cs

\* A plausible slip: a second place resets the run of top-two finishes.
StreakTransitionSecondResetsTop2(cs, rank) ==
    IF rank = 1 THEN
        [cs EXCEPT !.first = @ + 1, !.top2 = @ + 1, !.third = 0, !.last = 0,
                   !.not_first = 0, !.not_last = @ + 1]
    ELSE IF rank = 2 THEN
        [cs EXCEPT !.first = 0, !.top2 = 1, !.third = 0, !.last = 0,
                   !.not_first = @ + 1, !.not_last = @ + 1]
    ELSE IF rank = 3 THEN
        [cs EXCEPT !.first = 0, !.top2 = 0, !.third = @ + 1, !.last = 0,
                   !.not_first = @ + 1, !.not_last = @ + 1]
    ELSE IF rank = 4 THEN
        [cs EXCEPT !.first = 0, !.top2 = 0, !.third = 0, !.last = @ + 1,
                   !.not_first = @ + 1, !.not_last = 0]
    ELSE cs

\* A plausible slip: a first place does not extend the run of top-two
\* finishes.
StreakTransitionFirstSkipsTop2(cs, rank) ==
    IF rank = 1 THEN
        [cs EXCEPT !.first = @ + 1, !.third = 0, !.last = 0,
                   !.not_first = 0, !.not_last = @ + 1]
    ELSE IF rank = 2 THEN
        [cs EXCEPT !.first = 0, !.top2 = @ + 1, !.third = 0, !.last = 0,
                   !.not_first = @ + 1, !.not_last = @ + 1]
    ELSE IF rank = 3 THEN
        [cs EXCEPT !.first = 0, !.top2 = 0, !.third = @ + 1, !.last = 0,
                   !.not_first = @ + 1, !.not_last = @ + 1]
    ELSE IF rank = 4 THEN
        [cs EXCEPT !.first = 0, !.top2 = 0, !.third = 0, !.last = @ + 1,
                   !.not_first = @ + 1, !.not_last = 0]
    ELSE cs

\* The if/elif chain: a rank that matches no branch changes nothing.
StreakTransition(cs, rank) ==
    IF rank = 1 THEN
        [cs EXCEPT !.first = @ + 1, !.top2 = @ + 1, !.third = 0, !.last = 0,
                   !.not_first = 0, !.not_last = @ + 1]
    ELSE IF rank = 2 THEN
        [cs EXCEPT !.first = 0, !.top2 = @ + 1, !.third = 0, !.last = 0,
                   !.not_first = @ + 1, !.not_last = @ + 1]
    ELSE IF rank = 3 THEN
        [cs EXCEPT !.first = 0, !.top2 = 0, !.third = @ + 1, !.last = 0,
                   !.not_first = @ + 1, !.not_last = @ + 1]
    ELSE IF rank = 4 THEN
        [cs EXCEPT !.first = 0, !.top2 = 0, !.third = 0, !.last = @ + 1,
                   !.not_first = @ + 1, !.not_last = 0]
    ELSE cs

\* A plausible slip: the maximum is overwritten by the counter, not raised.
UpdateMaximaOverwrites(ts, cs) ==
    [f \in DOMAIN ts |->
        IF \E k \in DOMAIN cs : MaxKey(k) = f
        THEN cs[CHOOSE k \in DOMAIN cs : MaxKey(k) = f]
        ELSE ts[f]]

\* for key in self.current_streaks: if current > max: max = current
UpdateMaxima(ts, cs) ==
    [f \in DOMAIN ts |->
        IF \E k \in DOMAIN cs : MaxKey(k) = f /\ cs[k] > ts[f]
        THEN cs[CHOOSE k \in DOMAIN cs : MaxKey(k) = f]
        ELSE ts[f]]

----------------------------------------------------------------------------
\* analyze_all_records.

\* A plausible slip: + 1 for - 1.
NextCursorPlusOne(page) == Last(page).startTime * MsPerSec + 1

\* A plausible slip: the page's first record for its last.
NextCursorFromFirst(page) == page[1].startTime * MsPerSec - 1

\* last_record_time = records[-1]['startTime'] * 1000 - 1
NextCursor(page) == Last(page).startTime * MsPerSec - 1

\* list.sort is stable: s[i] comes after every record of earlier start time
\* and after every earlier one of equal start time.
PlaceByStartTime(s, i) ==
    1 + Cardinality({j \in 1..Len(s) :
                        \/ s[j].startTime < s[i].startTime
                        \/ s[j].startTime = s[i].startTime /\ j < i})

\* A plausible slip: the buffer, which arrives newest first, reversed instead
\* of sorted.
Reversed(s) == [k \in 1..Len(s) |-> s[Len(s) + 1 - k]]

\* all_records.sort(key=lambda x: x['startTime']): stable, ascending.
SortByStartTime(s) ==
    [k \in 1..Len(s) |->
        s[CHOOSE i \in 1..Len(s) : PlaceByStartTime(s, i) = k]]

\* The state after construction and the prologue of analyze_all_records.
Constructed ==
    /\ pc = "fetch"
    /\ start_time = Now
    /\ page_count = 0
    /\ records = <<>>
    /\ all_records = <<>>
    /\ arrival = <<>>
    /\ idx = 1
    /\ total_stats =
        [total_games |-> 0,
         max_consecutive_first |-> 0,
         max_consecutive_top2 |-> 0,
         max_consecutive_third |-> 0,
         max_consecutive_last |-> 0,
         max_consecutive_not_first |-> 0,
         max_consecutive_not_last |-> 0,
         rank_history |-> <<>>]
    /\ current_streaks =
        [first |-> 0, top2 |-> 0, third |-> 0, last |-> 0,
         not_first |-> 0, not_last |-> 0]
    /\ fetch_failed = FALSE
    /\ first_run = <<>>

\* The remote holds any records whose start times are in times and whose
\* participant lists are in lists.
InitOver(times, lists) ==
    /\ \E n \in 0..MaxRecords :
        \E ts \in [1..n -> times] : \E ps \in [1..n -> lists] :
            /\ Descending(ts)
            /\ server = Server(ts, ps)
    /\ Constructed

InitWith(lists) == InitOver(Times, lists)

Init == InitWith(PlayerLists)

\* x['startTime'] raises KeyError.
LacksStartTime(record) == "startTime" \in record.missing

\* One iteration of while True, given what fetch_player_records returned.
\* An empty page breaks the loop, and the sort follows at once.  Neither
\* records[-1]['startTime'] nor the sort's key is inside a try: a KeyError
\* there leaves the method.
LoopIteration(response) ==
    /\ pc = "fetch"
    /\ page_count' = page_count + 1
    /\ records' = response
    /\ IF response = <<>>
       THEN /\ arrival' = all_records
            /\ IF \E i \in 1..Len(all_records) : LacksStartTime(all_records[i])
               THEN /\ pc' = "crashed"
                    /\ UNCHANGED <<all_records, idx>>
               ELSE /\ all_records' = SortByStartTime(all_records)
                    /\ pc' = "process"
                    /\ idx' = 1
            /\ UNCHANGED start_time
       ELSE /\ all_records' = all_records \o response
            /\ IF LacksStartTime(Last(response))
               THEN /\ pc' = "crashed"
                    /\ UNCHANGED start_time
               ELSE /\ start_time' = NextCursor(response)
                    /\ UNCHANGED pc
            /\ UNCHANGED <<idx, arrival>>
    /\ UNCHANGED <<server, total_stats, current_streaks, first_run>>

\* The request succeeds: return response.json().
FetchSucceeds ==
    /\ LoopIteration(ServerPage(start_time))
    /\ UNCHANGED fetch_failed

\* except requests.exceptions.RequestException: return [].
FetchFails ==
    /\ LoopIteration(<<>>)
    /\ fetch_failed' = TRUE

\* The request succeeds against a remote that ignores the cursor.
FetchStubborn ==
    /\ page_count < MaxFetch
    /\ LoopIteration(StubbornPage)
    /\ UNCHANGED fetch_failed

\* The rank of the subject in the record the for loop is at.
CurrentRank == get_user_rank(parse_game_record(all_records[idx]))

\* The model's start times 1..MaxTime stand for the dates datetime holds,
\* the ones below EarliestDate for those before its first year.
EarliestDate == 1

\* datetime.fromtimestamp(record_data['startTime']) returns: it raises
\* ValueError for a timestamp outside the years of datetime.
DateRepresentable(t) == t >= EarliestDate

\* One iteration of for record_data in all_records.  The body is one try
\* whose except clause goes on to the next record: an exception of
\* parse_game_record comes before any update, one of the dict appended to
\* rank_history after total_games += 1 and update_streaks.
ProcessRecord ==
    /\ pc = "process"
    /\ idx <= Len(all_records)
    /\ LET record_data == all_records[idx]
           user_rank == get_user_rank(parse_game_record(record_data))
           new_streaks == StreakTransition(current_streaks, user_rank)
           counted == UpdateMaxima(
                        [total_stats EXCEPT !.total_games = @ + 1],
                        new_streaks)
       IN IF ParseRaises(record_data) \/ user_rank = 0
          THEN UNCHANGED <<total_stats, current_streaks>>
          ELSE /\ current_streaks' = new_streaks
               /\ total_stats' =
                    IF DateRepresentable(record_data.startTime)
                    THEN [counted EXCEPT !.rank_history =
                            Append(@, [rank |-> user_rank,
                                       timestamp |-> record_data.startTime])]
                    ELSE counted
    /\ idx' = idx + 1
    /\ UNCHANGED <<server, pc, start_time, page_count, records, all_records,
                   arrival, fetch_failed, first_run>>

\* The for loop is exhausted: analyze_all_records returns.
Finish ==
    /\ pc = "process"
    /\ idx > Len(all_records)
    /\ pc' = "done"
    /\ UNCHANGED <<server, start_time, page_count, records, all_records,
                   arrival, idx, total_stats, current_streaks, fetch_failed,
                   first_run>>

Next == FetchSucceeds \/ FetchFails \/ ProcessRecord \/ Finish

Spec == Init /\ [][Next]_vars

\* The paging loop does not read the participants: the runs over records in
\* which the subject came second or did not play.
PagingPlayerLists == {Players(FourScores, 1), Players(FourScores, 0)}

InitPaging == InitWith(PagingPlayerLists)

\* A request returns or raises (timeout=30) and nothing else blocks the
\* loop: the paging loop always takes its next iteration.
FairSpec ==
    InitPaging /\ [][Next]_vars /\ WF_vars(FetchSucceeds \/ FetchFails)

\* The same program against a remote whose records may hold five participants.
InitWide == InitWith(WidePlayerLists)

SpecWide == InitWide /\ [][Next]_vars

\* The same program against a remote that ignores the cursor.
NextStubborn == FetchStubborn \/ FetchFails \/ ProcessRecord \/ Finish

SpecStubborn == Init /\ [][NextStubborn]_vars

\* The same program against a remote that holds one record, of any number of
\* participants up to MaxPlayers with any scores, the subject among them any
\* number of times.
InitParse ==
    /\ \E n \in 1..MaxPlayers :
        \E ids \in [1..n -> {UserId, UserId + 1}] :
            \E scores \in [1..n -> 1..MaxScore] :
                server = Server(<<MaxTime>>,
                    <<[i \in 1..n |->
                        [accountId |-> ids[i], score |-> scores[i]]]>>)
    /\ Constructed

SpecParse == InitParse /\ [][Next]_vars

\* The same program against a remote some of whose records, all of them
\* matches the subject came second in, lack one of the keys the code reads.
InitMalformed ==
    /\ \E n \in 1..MaxRecords :
        \E ts \in [1..n -> Times] :
            \E bad \in SUBSET (1..n) : \E key \in ParseKeys :
                /\ Descending(ts)
                /\ server =
                    [i \in 1..n |->
                        [id |-> i, startTime |-> ts[i],
                         players |-> Players(FourScores, 1),
                         missing |-> IF i \in bad THEN {key} ELSE {}]]
    /\ Constructed

SpecMalformed == InitMalformed /\ [][Next]_vars

\* Start times, among them one that datetime cannot represent.
DatedTimes == (EarliestDate - 1)..MaxTime

\* The same program against a remote whose records may carry such a start
\* time.
InitDates == InitOver(DatedTimes, PagingPlayerLists)

SpecDates == InitDates /\ [][Next]_vars

\* Four ranks of the subject, oldest first.
ScenarioB == <<1, 4, 2, 2>>

\* The same program against a remote that holds as many records as
\* ScenarioB has ranks, each a match of the subject.
InitScenario ==
    /\ \E ts \in [1..Len(ScenarioB) -> Times] :
        \E ps \in [1..Len(ScenarioB) ->
                        PlayerLists \ {Players(FourScores, 0)}] :
            /\ Descending(ts)
            /\ server = Server(ts, ps)
    /\ Constructed

SpecScenario == InitScenario /\ [][Next]_vars

\* print_statistics, the rank distribution and the games per mode.

\* rank_array = [record['rank'] for record in reversed(rank_history)]
rank_array ==
    LET history == total_stats.rank_history
    IN [i \in 1..Len(history) |-> history[Len(history) + 1 - i].rank]

\* The keys of rank_counts: the ranks that occur in rank_array.
RankKeys == {rank_array[i] : i \in 1..Len(rank_array)}

\* The keys of mode_counts: the modes that occur in rank_history, every
\* record being of the mode record_data.get('modeId', 0) defaults to.
ModeKeys == {0 : i \in 1..Len(total_stats.rank_history)}

\* A plausible slip: a percentage computed outside the loops over the keys.
PercentageDivisorsOutsideLoops == {Len(rank_array)}

\* The divisors of percentage = (count / len(rank_array)) * 100, computed
\* once for every key of rank_counts and once for every key of mode_counts.
PercentageDivisors == {Len(rank_array) : k \in RankKeys \cup ModeKeys}

\* print_statistics runs after analyze_all_records has returned: a division
\* by zero raises ZeroDivisionError, which leaves the method.
print_statistics ==
    /\ pc = "done"
    /\ pc' = IF 0 \in PercentageDivisors THEN "crashed" ELSE "printed"
    /\ UNCHANGED <<server, start_time, page_count, records, all_records,
                   arrival, idx, total_stats, current_streaks, fetch_failed,
                   first_run>>

\* The same program followed by its report, as main runs them.
NextReport ==
    FetchSucceeds \/ FetchFails \/ ProcessRecord \/ Finish \/ print_statistics

SpecReport == InitPaging /\ [][NextReport]_vars

\* analyze_all_records is called a second time on the same analyzer: its
\* prologue sets all_records, start_time and page_count anew; total_stats and
\* current_streaks are set in __init__ only.
Reinvoke ==
    /\ pc = "done"
    /\ first_run = <<>>
    /\ first_run' = <<total_stats, current_streaks>>
    /\ pc' = "fetch"
    /\ start_time' = Now
    /\ page_count' = 0
    /\ records' = <<>>
    /\ all_records' = <<>>
    /\ arrival' = <<>>
    /\ idx' = 1
    /\ UNCHANGED <<server, total_stats, current_streaks, fetch_failed>>

\* The same program, analyze_all_records called up to twice.
NextReentry ==
    FetchSucceeds \/ FetchFails \/ ProcessRecord \/ Finish \/ Reinvoke

SpecReentry == InitPaging /\ [][NextReentry]_vars

----------------------------------------------------------------------------
\* What the claims speak of.

\* The ranks handed to update_streaks so far, in order.
RanksFed == [i \in 1..Len(total_stats.rank_history) |->
                total_stats.rank_history[i].rank]

\* This step is one iteration of the for loop that calls update_streaks.
CallsUpdateStreaks ==
    /\ pc = "process"
    /\ idx <= Len(all_records)
    /\ idx' = idx + 1
    /\ CurrentRank # 0

\* The row of the transition table for rank r, applied to counters s.
TableRow(s, r) ==
    CASE r = 1 -> [first |-> s.first + 1, top2 |-> s.top2 + 1, third |-> 0,
                   last |-> 0, not_first |-> 0, not_last |-> s.not_last + 1]
      [] r = 2 -> [first |-> 0, top2 |-> s.top2 + 1, third |-> 0,
                   last |-> 0, not_first |-> s.not_first + 1,
                   not_last |-> s.not_last + 1]
      [] r = 3 -> [first |-> 0, top2 |-> 0, third |-> s.third + 1,
                   last |-> 0, not_first |-> s.not_first + 1,
                   not_last |-> s.not_last + 1]
      [] r = 4 -> [first |-> 0, top2 |-> 0, third |-> 0,
                   last |-> s.last + 1, not_first |-> s.not_first + 1,
                   not_last |-> 0]

\* C1: for every rank r in 1..4 and every prior counter state, one call of
\* update_streaks(r) leaves exactly the row of the transition table for r;
\* and the ranks 1,1,1 from the initial state give first = 3, top2 = 3,
\* not_last = 3 and 0 for the other three counters.
C1_TransitionTable ==
    /\ [][\A r \in 1..4 :
            (CallsUpdateStreaks /\ CurrentRank = r)
                => current_streaks' = TableRow(current_streaks, r)]_vars
    /\ [](RanksFed = <<1, 1, 1>> =>
            current_streaks = [first |-> 3, top2 |-> 3, third |-> 0,
                               last |-> 0, not_first |-> 0, not_last |-> 3])

\* Three first places in a row have been processed, after a run of the loop
\* that went through every rank's row.
C1_Witness ==
    /\ RanksFed = <<1, 1, 1>>
    /\ current_streaks.first = 3
    /\ pc = "done"

\* The predicate each counter follows.
Satisfies(key, r) ==
    CASE key = "first" -> r = 1
      [] key = "top2" -> r \in {1, 2}
      [] key = "third" -> r = 3
      [] key = "last" -> r = 4
      [] key = "not_first" -> r # 1
      [] key = "not_last" -> r # 4

\* The length of the longest suffix of rs whose ranks all satisfy key.
SuffixRun(key, rs) ==
    LET ok == {n \in 0..Len(rs) :
                \A i \in (Len(rs) - n + 1)..Len(rs) : Satisfies(key, rs[i])}
    IN CHOOSE n \in ok : \A m \in ok : m <= n

\* The length of the longest contiguous run satisfying key anywhere in rs.
LongestRun(key, rs) ==
    LET runs == {0} \cup
            {j - i + 1 : i \in 1..Len(rs), j \in 1..Len(rs)}
        ok == {n \in runs :
                n = 0 \/ \E i \in 1..(Len(rs) - n + 1) :
                            \A k \in i..(i + n - 1) : Satisfies(key, rs[k])}
    IN CHOOSE n \in ok : \A m \in ok : m <= n

\* C2: after update_streaks has been applied in order to a sequence of ranks
\* in 1..4 from the all-zero state, each counter is the length of the longest
\* suffix satisfying its predicate and each maximum the length of the longest
\* run satisfying it anywhere in the sequence.
C2_CountersAreRuns ==
    (\A i \in 1..Len(RanksFed) : RanksFed[i] \in 1..4) =>
        \A key \in Keys :
            /\ current_streaks[key] = SuffixRun(key, RanksFed)
            /\ total_stats[MaxKey(key)] = LongestRun(key, RanksFed)

\* A run of two top-two finishes that a fourth place has ended: the maximum
\* keeps the run, the counter does not.
C2_Witness ==
    /\ RanksFed = <<2, 1, 4>>
    /\ current_streaks.top2 = 0
    /\ total_stats.max_consecutive_top2 = 2
    /\ current_streaks.not_first = 1
    /\ total_stats.max_consecutive_not_last = 2

\* C3: after every call of update_streaks each maximum is the larger of its
\* value before the call and the new counter; so every maximum is at least its
\* counter in every state, and no maximum ever decreases.
C3_MaximaFollowCounters ==
    /\ [][CallsUpdateStreaks =>
            \A key \in Keys :
                total_stats'[MaxKey(key)] =
                    Max2(total_stats[MaxKey(key)], current_streaks'[key])]_vars
    /\ [](\A key \in Keys : total_stats[MaxKey(key)] >= current_streaks[key])
    /\ [][\A key \in Keys :
            total_stats'[MaxKey(key)] >= total_stats[MaxKey(key)]]_vars

\* A maximum that stands above its counter: a run of two first places was
\* followed by a second place.
C3_Witness ==
    /\ RanksFed = <<1, 1, 2>>
    /\ total_stats.max_consecutive_first = 2
    /\ current_streaks.first = 0

\* C4: in the paging loop, after a non-empty page the cursor is the start
\* time of the page's last record, in milliseconds, minus one; it is strictly
\* below the millisecond timestamp of every record of that page, so the next
\* request cannot return a record of the page again.
C4_CursorBelowPage ==
    (pc = "fetch" /\ records # <<>>) =>
        LET next_page == ServerPage(start_time)
        IN /\ start_time = Last(records).startTime * MsPerSec - 1
           /\ \A i \in 1..Len(records) :
                /\ start_time < records[i].startTime * MsPerSec
                /\ \A j \in 1..Len(next_page) :
                    next_page[j].id # records[i].id

\* The loop has just taken a full page whose records differ in time.
C4_Witness ==
    /\ pc = "fetch"
    /\ Len(records) = PageLimit
    /\ records[1].startTime > Last(records).startTime
    /\ ServerPage(start_time) # <<>>

\* C5: against a remote that keeps its contract the cursor strictly decreases
\* on every iteration of the paging loop that receives a page, there are never
\* more fetches than the remote has records plus one, and the loop eventually
\* leaves (it receives an empty page).
C5_PagingTerminates ==
    /\ [][(pc = "fetch" /\ pc' = "fetch") => start_time' < start_time]_vars
    /\ [](page_count <= Len(server) + 1)
    /\ <>(pc # "fetch")

\* The loop has ended on the remote's own empty page after it paged through
\* a remote holding more than a page of records, and the bound was met
\* exactly by some run (one record, two fetches).
C5_Witness ==
    /\ pc = "process"
    /\ ~fetch_failed
    /\ Len(server) > PageLimit
    /\ Len(arrival) = Len(server)
    /\ page_count >= 3

\* The distinct matches among the records in s that counted for the subject.
CountedIds(s) ==
    {s[i].id : i \in {k \in 1..Len(s) :
                        get_user_rank(parse_game_record(s[k])) # 0}}

\* The records the for loop has been through.
Processed ==
    IF pc = "fetch" THEN <<>> ELSE SubSeq(all_records, 1, idx - 1)

\* C6: no record of the remote appears twice in the accumulated buffer, and so
\* no match is counted twice: total_games and the length of rank_history are
\* the number of distinct matches processed that the subject took part in, and
\* no counter exceeds it.
C6_NoRecordTwice ==
    /\ \A i \in 1..Len(all_records) : \A j \in 1..Len(all_records) :
            i # j => all_records[i].id # all_records[j].id
    /\ LET matches == Cardinality(CountedIds(Processed))
       IN /\ total_stats.total_games = matches
          /\ Len(total_stats.rank_history) = matches
          /\ \A key \in Keys : current_streaks[key] <= matches

\* Two pages have been taken and folded, the newest record of the second one
\* second older than the oldest record of the first.
C6_Witness ==
    /\ pc = "done"
    /\ ~fetch_failed
    /\ Len(arrival) > PageLimit
    /\ arrival[PageLimit].startTime = arrival[PageLimit + 1].startTime + 1
    /\ total_stats.total_games = Len(arrival)

\* C7: if a fetch of the paging loop fails, the run ends with an error: the
\* pages accumulated so far are not folded through update_streaks.
C7_FetchFailureAborts ==
    fetch_failed =>
        /\ total_stats.total_games = 0
        /\ total_stats.rank_history = <<>>

\* The place in s of the record with this id.
PlaceOf(s, id) == CHOOSE i \in 1..Len(s) : s[i].id = id

\* What the records of s leave in rank_history, in order.
HistoryOf(s) ==
    LET counted == SelectSeq(s,
            LAMBDA r : get_user_rank(parse_game_record(r)) # 0)
    IN [i \in 1..Len(counted) |->
            [rank |-> get_user_rank(parse_game_record(counted[i])),
             timestamp |-> counted[i].startTime]]

\* s is a prefix of t.
IsPrefix(s, t) == Len(s) <= Len(t) /\ s = SubSeq(t, 1, Len(s))

C9_InvalidRankRejected ==
    [][(pc = "process" /\ idx <= Len(all_records) /\ CurrentRank \notin 0..4)
            => UNCHANGED <<total_stats, current_streaks>>]_vars

\* The configured maximum of fetch iterations the claim speaks of.
IterationCap == 3

\* C10: the paging loop performs at most a configured maximum number of fetch
\* iterations, whatever the remote returns.
C10_FetchesCapped == page_count <= IterationCap

\* No participant of the raw record is the subject.
SubjectAbsent(record) ==
    \A i \in 1..Len(record.players) : record.players[i].accountId # UserId

\* C11: processing a record whose participant list does not contain the
\* subject leaves total_games, the six counters, the six maxima and
\* rank_history as they were, raises no error, and the loop goes on to the
\* next record.
C11_AbsentSubjectSkipped ==
    [][(pc = "process" /\ idx <= Len(all_records)
            /\ SubjectAbsent(all_records[idx]))
        => /\ UNCHANGED <<total_stats, current_streaks>>
           /\ pc' = "process"
           /\ idx' = idx + 1]_vars

\* A record without the subject has been passed over, after a counted one
\* and before another.
C11_Witness ==
    /\ pc = "done"
    /\ Len(all_records) = 3
    /\ ~SubjectAbsent(all_records[1])
    /\ SubjectAbsent(all_records[2])
    /\ ~SubjectAbsent(all_records[3])
    /\ total_stats.total_games = 2
    /\ Len(total_stats.rank_history) = 2

\* The participants of ps with this score, in order, by account id.
WithScore(ps, id_of(_), s) ==
    LET tied == SelectSeq(ps, LAMBDA x : x.score = s)
    IN [k \in 1..Len(tied) |-> id_of(tied[k])]

RawId(player_data) == player_data.accountId

ParsedId(player) == player.account_id

\* C12: for a raw record of n participants parse_game_record assigns ranks
\* that are a permutation of 1..n; a participant of strictly higher score has
\* a strictly smaller rank; participants of equal score keep the order of the
\* response; and get_user_rank returns the rank of the first participant, in
\* the order it scans them, whose account id is the subject's (0 if none),
\* which is the rank the for loop then records.
C12_RanksByScore ==
    \A r \in 1..Len(server) :
        LET raw == server[r].players
            parsed == parse_game_record(server[r]).players
            by_rank == [k \in 1..Len(parsed) |->
                        parsed[CHOOSE i \in 1..Len(parsed) :
                                    parsed[i].rank = k]]
            user_rank == get_user_rank(parse_game_record(server[r]))
        IN /\ Len(parsed) = Len(raw)
           /\ {parsed[i].rank : i \in 1..Len(parsed)} = 1..Len(raw)
           /\ \A i \in 1..Len(parsed) : \A j \in 1..Len(parsed) :
                parsed[i].score > parsed[j].score
                    => parsed[i].rank < parsed[j].rank
           /\ \A s \in 1..MaxScore :
                WithScore(by_rank, ParsedId, s) = WithScore(raw, RawId, s)
           /\ IF SubjectAbsent(server[r])
              THEN user_rank = 0
              ELSE \E k \in 1..Len(parsed) :
                    /\ parsed[k].account_id = UserId
                    /\ parsed[k].rank = user_rank
                    /\ \A j \in 1..(k - 1) : parsed[j].account_id # UserId
           /\ (pc = "done" /\ all_records = <<server[r]>>) =>
                RanksFed = IF user_rank = 0 THEN <<>> ELSE <<user_rank>>

\* A record of four participants has been processed in which the subject,
\* listed twice, ties with an earlier participant and is beaten by a later
\* one: the subject's rank is 3.
C12_Witness ==
    /\ pc = "done"
    /\ Len(server) = 1
    /\ server[1].players =
        <<[accountId |-> UserId + 1, score |-> 1],
          [accountId |-> UserId, score |-> 1],
          [accountId |-> UserId + 1, score |-> 2],
          [accountId |-> UserId, score |-> 1]>>
    /\ RanksFed = <<3>>

\* The records of s that lack no key.
WellFormed(s) == SelectSeq(s, LAMBDA r : r.missing = {})

\* C13: a raw record that lacks a required key is skipped and the run goes
\* on, wherever in a page the record sits: no exception leaves the method,
\* and when the run ends every fetched record that lacks nothing has been
\* counted.
C13_MalformedSkipped ==
    /\ pc # "crashed"
    /\ pc = "done" =>
        total_stats.total_games = Len(WellFormed(all_records))

\* The keys of total_stats that are neither total_games, nor a maximum, nor
\* rank_history: where a count of skipped records would be surfaced.
SkippedCounters ==
    DOMAIN total_stats
        \ ({"total_games", "rank_history"} \cup {MaxKey(key) : key \in Keys})

\* The number of skipped records the surfaced state reports.
SurfacedSkipped ==
    IF SkippedCounters = {} THEN 0
    ELSE total_stats[CHOOSE f \in SkippedCounters : TRUE]

\* C14: every skipped record adds one to a counter of skipped records that
\* is part of the state surfaced at the end of the run: when the run ends,
\* the number of fetched records is total_games plus the skipped count.
C14_SkippedCounted ==
    pc = "done" =>
        Len(all_records) = total_stats.total_games + SurfacedSkipped

\* C15: a second call of analyze_all_records on the same analyzer, against
\* the same remote data and with no failed request, leaves the total_games,
\* counters, maxima and rank_history the first call left.
C15_ReentryIdempotent ==
    (pc = "done" /\ first_run # <<>> /\ ~fetch_failed) =>
        <<total_stats, current_streaks>> = first_run

\* C16: for every sequence of ranks in 1..4 and at every point of the
\* processing, top2 >= first and max_consecutive_top2 >= max_consecutive_first;
\* a first or second place adds one to top2, a third or fourth place resets it.
C16_Top2CoversFirst ==
    /\ [](current_streaks.top2 >= current_streaks.first)
    /\ [](total_stats.max_consecutive_top2
            >= total_stats.max_consecutive_first)
    /\ [][CallsUpdateStreaks =>
            current_streaks'.top2 =
                IF CurrentRank \in {1, 2} THEN current_streaks.top2 + 1
                ELSE 0]_vars

\* A run of three top-two finishes of which only the last is a first place.
C16_Witness ==
    /\ RanksFed = <<2, 2, 1>>
    /\ current_streaks.top2 = 3
    /\ current_streaks.first = 1
    /\ total_stats.max_consecutive_top2 = 3
    /\ total_stats.max_consecutive_first = 1

\* C17: when the very first fetch returns an empty page, the run ends with
\* the six counters and the six maxima 0, total_games 0 and rank_history
\* empty, and the percentages of the report's rank distribution and games per
\* mode divide by zero nowhere.
C17_EmptyInput ==
    (page_count = 1 /\ records = <<>> /\ pc # "fetch") =>
        /\ \A key \in Keys :
            /\ current_streaks[key] = 0
            /\ total_stats[MaxKey(key)] = 0
        /\ total_stats.total_games = 0
        /\ total_stats.rank_history = <<>>
        /\ 0 \notin PercentageDivisors
        /\ pc # "crashed"

\* The report has been printed for a remote that holds no record.
C17_Witness ==
    /\ pc = "printed"
    /\ server = <<>>
    /\ page_count = 1
    /\ records = <<>>
    /\ total_stats.total_games = 0

\* C18 as stated: the ranks 1,4,2,2 fed in that order from the initial state
\* end with first = 0, top2 = 2, third = 0, last = 0, not_first = 2,
\* not_last = 1 and the maxima max_first = 1, max_last = 1, max_top2 = 2,
\* max_not_last = 1, max_not_first = 2.
C18_ScenarioB_AsStated ==
    RanksFed = ScenarioB =>
        /\ current_streaks = [first |-> 0, top2 |-> 2, third |-> 0,
                              last |-> 0, not_first |-> 2, not_last |-> 1]
        /\ total_stats.max_consecutive_first = 1
        /\ total_stats.max_consecutive_last = 1
        /\ total_stats.max_consecutive_top2 = 2
        /\ total_stats.max_consecutive_not_last = 1
        /\ total_stats.max_consecutive_not_first = 2

\* C18, amended: the ranks 1,4,2,2 fed in that order from the initial state
\* end with first = 0, top2 = 2, third = 0, last = 0, not_first = 3,
\* not_last = 2 and the maxima max_first = 1, max_last = 1, max_top2 = 2,
\* max_not_last = 2, max_not_first = 3 (max_third = 0).
C18_ScenarioB ==
    RanksFed = ScenarioB =>
        /\ current_streaks = [first |-> 0, top2 |-> 2, third |-> 0,
                              last |-> 0, not_first |-> 3, not_last |-> 2]
        /\ total_stats.max_consecutive_first = 1
        /\ total_stats.max_consecutive_last = 1
        /\ total_stats.max_consecutive_top2 = 2
        /\ total_stats.max_consecutive_not_last = 2
        /\ total_stats.max_consecutive_not_first = 3
        /\ total_stats.max_consecutive_third = 0

\* The run has ended after it folded exactly the four ranks of the scenario.
C18_Witness ==
    /\ pc = "done"
    /\ RanksFed = ScenarioB
    /\ total_stats.total_games = Len(ScenarioB)

\* C19: against a remote that keeps its contract and with no failed request,
\* every record of the remote older than the initial cursor is in the buffer
\* when the paging loop has ended, records that share a second with the last
\* record of an earlier page included.
C19_PagingComplete ==
    (pc # "fetch" /\ ~fetch_failed) =>
        \A i \in 1..Len(server) :
            server[i].startTime * MsPerSec < Now =>
                \E j \in 1..Len(all_records) :
                    all_records[j].id = server[i].id

\* C20: in every state between two steps of the for loop, total_games is the
\* length of rank_history and the number of calls of update_streaks made so
\* far, also after a record whose processing raised an exception part-way:
\* the update of total_games, the streaks and rank_history is all-or-nothing.
C20_AllOrNothing ==
    /\ total_stats.total_games = Len(total_stats.rank_history)
    /\ total_stats.total_games = Cardinality(CountedIds(Processed))

====
